---- MODULE Spec2Model ----
(***************************************************************************)
(* Model of the repair loop of ai-dev-agent: orchestrator.Engine.Execute   *)
(* driven through the collaborators the CLI wires in (filesystem.Manager,  *)
(* prompt.Builder via promptAdapter, llm.Client, executor.Executor via     *)
(* execAdapter).  Strings are modelled as sequences of tokens, so that     *)
(* "is a substring of" becomes "is a contiguous subsequence of".           *)
(***************************************************************************)
EXTENDS Integers, Sequences, FiniteSets, TLC

\* ---------------------------------------------------------------- bounds
MaxRetriesBound == 2
MaxFiles == 2
MaxBlocks == 2
MaxClock == 1

\* ---------------------------------------------------------------- values
Paths == {"a.go", "b.go"}
Absent == "<absent>"
Orig == "orig"
Codes == {"c1", "c2"}
Bodies == Codes \cup {""}
BuildErrs == {"undefined: x"}
NoTarget == "<none>"

\* bounded sequences over a set
SeqUpTo(S, n) == UNION {[1..k -> S] : k \in 0..n}

\* bounded sequences without repetition
DistinctSeqUpTo(S, n) ==
  {q \in SeqUpTo(S, n) : \A i, j \in 1..Len(q) : q[i] = q[j] => i = j}

\* s is a contiguous subsequence of t (strings.Contains on token strings)
Contains(t, s) ==
  \E i \in 0..(Len(t) - Len(s)) : \A j \in 1..Len(s) : t[i + j] = s[j]

Range(s) == {s[i] : i \in 1..Len(s)}

\* ---------------------------------------------------------------- errors
\* a Go error value: nil, or an error carrying a message
Nil == [isNil |-> TRUE, msg |-> <<>>]
Err(m) == [isNil |-> FALSE, msg |-> m]
\* fmt.Errorf("<prefix>: %w", e)
Wrap(prefix, e) == Err(<<prefix>> \o e.msg)

ErrFileNotFound == <<"file not found">>
ErrWriteIO == <<"permission denied">>
ErrPrompt == <<"no messages in prompt">>
ErrExec == <<"exec: sh: not found">>
ErrCtxCanceled == <<"request failed:", "context canceled">>
ErrLLMTimeout == <<"request failed:", "Timeout">>
ErrLLMAuth == <<"API error:", "401">>
LLMErrs == {ErrLLMTimeout, ErrLLMAuth}

\* strings.ToLower on the tokens that occur in error messages
ToLower(tok) == IF tok = "Timeout" THEN "timeout" ELSE tok

RetryMarkers == {"timeout", "connection", "rate limit", "503", "502"}

\* the markers are looked for in the text as it is
isRetryableMut(err) ==
  IF err.isNil THEN FALSE
  ELSE \E i \in 1..Len(err.msg) : err.msg[i] \in RetryMarkers

\* Engine.isRetryable
isRetryable(err) ==
  IF err.isNil THEN FALSE
  ELSE \E i \in 1..Len(err.msg) : ToLower(err.msg[i]) \in RetryMarkers

\* off-by-one in the loop condition
LoopCondMut(attempt, maxRetries) == attempt < maxRetries

\* the for-loop condition of Engine.Execute
LoopCond(attempt, maxRetries) == attempt <= maxRetries

\* the guidance is added without the error text
appendBuildErrorMut(instruction, buildErr) ==
  instruction \o <<"Previous attempt failed:">> \o <<"Please fix the code.">>

\* the guidance replaces the instruction
appendBuildErrorReset(instruction, buildErr) ==
  <<"Previous attempt failed:">> \o buildErr.msg \o <<"Please fix the code.">>

\* the guidance is put in front of the instruction
appendBuildErrorPrepend(instruction, buildErr) ==
  <<"Previous attempt failed:">> \o buildErr.msg \o <<"Please fix the code.">> \o instruction

\* Engine.appendBuildError
appendBuildError(instruction, buildErr) ==
  instruction \o <<"Previous attempt failed:">> \o buildErr.msg \o <<"Please fix the code.">>

\* the exit code is not looked at
verifyBuildMut(exitCode, stderr, err) ==
  IF ~err.isNil THEN err ELSE Nil

\* the error of a failed build names the exit status, not the output
verifyBuildNoText(exitCode, stderr, err) ==
  IF ~err.isNil THEN err
  ELSE IF exitCode # 0 THEN Err(<<"exit status 1">>)
  ELSE Nil

\* Engine.verifyBuild, from what CommandService.ExecuteInDir returned
verifyBuild(exitCode, stderr, err) ==
  IF ~err.isNil THEN err
  ELSE IF exitCode # 0 THEN Err(<<stderr>>)
  ELSE Nil

\* ---------------------------------------------------------------- prompt
PathOrder == <<"a.go", "b.go", "x.go">>
ExtraNames == {"x.go"}
FsPaths == Paths \cup ExtraNames

\* strings.Title on a mode name
Title(mode) ==
  CASE mode = "refactor" -> "Refactor"
    [] mode = "fix" -> "Fix"
    [] mode = "generate" -> "Generate"
    [] OTHER -> mode

RECURSIVE FileSection(_, _)
\* the "--- FILE: path ---" entries of Builder.buildUserPrompt, paths sorted
FileSection(files, i) ==
  IF i > Len(PathOrder) THEN <<>>
  ELSE (IF PathOrder[i] \in DOMAIN files
          THEN <<"--- FILE:", PathOrder[i], files[PathOrder[i]]>>
          ELSE <<>>) \o FileSection(files, i + 1)

\* Builder.buildUserPrompt (no constraints are ever added by the adapter)
buildUserPrompt(mode, instruction, files) ==
  (IF instruction # <<>>
     THEN <<"## Task:", Title(mode), "### Instruction:">> \o instruction
     ELSE <<>>)
  \o (IF DOMAIN files # {} THEN <<"### Files:">> \o FileSection(files, 1) ELSE <<>>)
  \o <<"Provide your response with code in markdown code blocks">>

\* ---------------------------------------------------------------- blocks
\* a response is the sequence of its fenced blocks; Body is the fence's text
\* after strings.TrimSpace
Fence(lang, body) == [Language |-> lang, Body |-> body]
Responses == SeqUpTo({Fence("go", b) : b \in Bodies}, MaxBlocks)

CodeBlock(lang, code, name) == [Language |-> lang, Code |-> code, Filename |-> name]

RECURSIVE parseCodeBlocks(_)
\* Engine.parseCodeBlocks: fences whose trimmed text is empty are skipped
parseCodeBlocks(response) ==
  IF response = <<>> THEN <<>>
  ELSE (IF Head(response).Body # ""
          THEN <<CodeBlock(Head(response).Language, Head(response).Body, "")>>
          ELSE <<>>) \o parseCodeBlocks(Tail(response))

\* the index test is off by one
TargetOfMut(files, blocks, i) ==
  IF i < Len(files) THEN files[i]
  ELSE IF blocks[i].Filename # "" THEN blocks[i].Filename
  ELSE NoTarget

\* target selection of Engine.writeFiles for the i-th block (1-based)
TargetOf(files, blocks, i) ==
  IF i <= Len(files) THEN files[i]
  ELSE IF blocks[i].Filename # "" THEN blocks[i].Filename
  ELSE NoTarget

\* the WriteFile calls Engine.writeFiles issues when none of them fails
WritePlan(files, blocks) ==
  SelectSeq([i \in 1..Len(blocks) |->
               [path |-> TargetOf(files, blocks, i), code |-> blocks[i].Code]],
            LAMBDA w : w.path # NoTarget)

\* ---------------------------------------------------------------- files
\* Manager.createBackup: one backup per (file, second); same name overwrites
createBackup(bks, path, content, now) ==
  {b \in bks : ~(b.file = path /\ b.ts = now)}
     \cup {[file |-> path, ts |-> now, content |-> content]}

\* Manager.WriteFile; ok = whether os.WriteFile succeeds
WriteFile(st, path, content, now, backupEnabled, ok) ==
  [fs |-> IF ok THEN [st.fs EXCEPT ![path] = content] ELSE st.fs,
   backups |-> IF st.fs[path] # Absent /\ backupEnabled
                 THEN createBackup(st.backups, path, st.fs[path], now)
                 ELSE st.backups]

RECURSIVE WriteSeq(_, _, _, _, _, _)
\* the first k calls of the plan succeed, call k+1 (if any) fails
WriteSeq(st, plan, i, k, now, backupEnabled) ==
  IF i > Len(plan) \/ i > k + 1 THEN st
  ELSE WriteSeq(WriteFile(st, plan[i].path, plan[i].code, now, backupEnabled, i <= k),
                plan, i + 1, k, now, backupEnabled)

\* Engine.readFiles: the first unreadable path, or NoTarget
RECURSIVE FirstMissing(_, _)
FirstMissing(fsys, files) ==
  IF files = <<>> THEN NoTarget
  ELSE IF fsys[Head(files)] = Absent THEN Head(files)
  ELSE FirstMissing(fsys, Tail(files))

\* ============================================================== diagnose
\* Strings of the diagnose package are sequences of pieces: words, and the
\* separator characters that matter to sanitizeID.
Separators == {".", "/", "-", "_", ":", " "}

RECURSIVE Dashed(_)
\* regexp [^a-zA-Z0-9]+ replaced by "-": every run of separators becomes one dash
Dashed(s) ==
  IF s = <<>> THEN <<>>
  ELSE IF Head(s) \notin Separators THEN <<Head(s)>> \o Dashed(Tail(s))
  ELSE (IF Len(s) > 1 /\ s[2] \in Separators THEN <<>> ELSE <<"-">>) \o Dashed(Tail(s))

\* strings.Trim(s, "-") on a string whose dashes are single
TrimDash(s) ==
  LET a == IF s # <<>> /\ Head(s) = "-" THEN Tail(s) ELSE s
  IN IF a # <<>> /\ a[Len(a)] = "-" THEN SubSeq(a, 1, Len(a) - 1) ELSE a

\* only the leading and trailing dashes are not removed
sanitizeIDMut(s) == Dashed(s)

\* sanitizeID
sanitizeID(s) == TrimDash(Dashed(s))

\* Issue, with the fields the checks set
Issue(id, cat, level, title, desc, file, line, col, sugg) ==
  [ID |-> id, Category |-> cat, Level |-> level, Title |-> title,
   Description |-> desc, File |-> file, Line |-> line, Column |-> col,
   Suggestion |-> sugg]

\* one line of tool output.  kind "pos": file:line:col: msg, with " (linter)"
\* at the end when linter is not empty; kind "plain": any other text
PosLine(f, l, c, m) ==
  [kind |-> "pos", file |-> f, line |-> l, col |-> c, msg |-> m, linter |-> ""]
LintLine(f, l, c, m, lt) ==
  [kind |-> "pos", file |-> f, line |-> l, col |-> c, msg |-> m, linter |-> lt]
PlainLine(m) ==
  [kind |-> "plain", file |-> <<>>, line |-> 0, col |-> 0, msg |-> m, linter |-> ""]

\* group 4 of errorPattern: the text after "file:line:col:"
ErrMsgOf(ln) == ln.msg \o (IF ln.linter = "" THEN <<>> ELSE <<"(", ln.linter, ")">>)

\* strings.Contains(text, word) for the words the parsers look for
HasWord(text, word) ==
  \E i \in 1..Len(text) :
    \/ text[i] = word
    \/ word = "undefined" /\ text[i] = "undefined:"
    \/ word = "error" /\ text[i] \in {"link error", "errors"}

\* undefinedPattern undefined:\s*(\w+): the identifier after "undefined:"
UndefIdent(msg) ==
  LET idx == {i \in 1..(Len(msg) - 1) :
                msg[i] = "undefined:" /\ msg[i + 1] \notin Separators}
  IN IF idx = {} THEN ""
     ELSE msg[(CHOOSE i \in idx : \A j \in idx : i <= j) + 1]

\* importPattern could not import\s+(.+): the rest of the message
ImportRest(msg) ==
  LET idx == {i \in 1..(Len(msg) - 1) : msg[i] = "could not import"}
  IN IF idx = {} THEN <<>>
     ELSE SubSeq(msg, (CHOOSE i \in idx : \A j \in idx : i <= j) + 1, Len(msg))

\* the column is put into the id as well
BuildLocIDMut(kind, file, line, col) ==
  <<kind>> \o sanitizeID(file) \o <<"-", ToString(line), "-", ToString(col)>>

\* fmt.Sprintf("build-<kind>-%s-%d", sanitizeID(file), line)
BuildLocID(kind, file, line, col) ==
  <<kind>> \o sanitizeID(file) \o <<"-", ToString(line)>>

\* the issue parseBuildErrors makes of one line matching errorPattern
ClassifyBuildError(ln) ==
  LET errMsg == ErrMsgOf(ln)
      base(id, level, title, sugg) ==
        Issue(id, "build", level, title, errMsg, ln.file, ln.line, ln.col, sugg)
  IN IF HasWord(errMsg, "undefined")
       THEN IF UndefIdent(errMsg) # ""
              THEN base(<<"build-undefined-", UndefIdent(errMsg)>>, "error",
                        <<"Undefined identifier:", UndefIdent(errMsg)>>,
                        <<"Check if", UndefIdent(errMsg), "is defined or imported correctly">>)
              ELSE Issue(<<>>, "build", "error", <<>>, <<>>, ln.file, ln.line, ln.col, <<>>)
     ELSE IF HasWord(errMsg, "could not import")
       THEN IF ImportRest(errMsg) # <<>>
              THEN base(<<"build-import-">> \o sanitizeID(ImportRest(errMsg)), "error",
                        <<"Import failed:">> \o ImportRest(errMsg),
                        <<"Check if the package exists and run 'go mod tidy'">>)
              ELSE Issue(<<>>, "build", "error", <<>>, <<>>, ln.file, ln.line, ln.col, <<>>)
     ELSE IF HasWord(errMsg, "declared but not used")
       THEN base(BuildLocID("build-unused-", ln.file, ln.line, ln.col), "warning",
                 <<"Unused variable/declaration">>,
                 <<"Remove unused declaration or use the variable">>)
     ELSE IF HasWord(errMsg, "cannot use")
       THEN base(BuildLocID("build-type-mismatch-", ln.file, ln.line, ln.col), "error",
                 <<"Type mismatch">>, <<"Check type compatibility">>)
     ELSE base(BuildLocID("build-error-", ln.file, ln.line, ln.col), "error",
               <<"Build error">>, <<>>)

RECURSIVE parseBuildLines(_, _)
\* the loop of parseBuildErrors over the lines left, issues being those found
parseBuildLines(lines, issues) ==
  IF lines = <<>> THEN issues
  ELSE LET ln == Head(lines) IN
       parseBuildLines(Tail(lines),
         IF ln.kind = "plain" /\ ln.msg = <<>> THEN issues
         ELSE IF ln.kind = "pos" THEN Append(issues, ClassifyBuildError(ln))
         ELSE IF HasWord(ln.msg, "error") \/ HasWord(ln.msg, "Error")
           THEN Append(issues, Issue(<<"build-generic-", ToString(Len(issues))>>, "build", "error",
                                     <<"Build error">>, ln.msg, <<>>, 0, 0, <<>>))
         ELSE issues)

\* Diagnoser.parseBuildErrors
parseBuildErrors(output) == parseBuildLines(output, <<>>)

RECURSIVE parseVetErrors(_)
\* Diagnoser.parseVetErrors: ^([^:]+):(\d+):\s*(.+)$ takes file and line, and
\* the rest of the line (column included) as the description
parseVetErrors(output) ==
  IF output = <<>> THEN <<>>
  ELSE LET ln == Head(output) IN
       (IF ln.kind = "pos"
          THEN <<Issue(<<"vet-">> \o sanitizeID(ln.file) \o <<"-", ToString(ln.line)>>, "lint",
                       "warning", <<"go vet issue">>, <<ToString(ln.col), ":">> \o ErrMsgOf(ln),
                       ln.file, ln.line, 0, <<>>)>>
          ELSE <<>>) \o parseVetErrors(Tail(output))

\* Diagnoser.getLintSuggestion
getLintSuggestion(linter) ==
  CASE linter = "errcheck" -> <<"Check and handle the returned error">>
    [] linter = "govet" -> <<"Follow the suggested fix from go vet">>
    [] linter = "staticcheck" -> <<"Apply the suggested fix from staticcheck">>
    [] linter = "ineffassign" -> <<"Remove or use the assigned variable">>
    [] linter = "deadcode" -> <<"Remove unused code">>
    [] linter = "unused" -> <<"Remove or use the unused code">>
    [] linter = "gosec" -> <<"Review and fix the security issue">>
    [] OTHER -> <<"Review and fix the issue">>

RECURSIVE parseLintErrors(_)
\* Diagnoser.parseLintErrors: only lines that end in " (linter)" match
parseLintErrors(output) ==
  IF output = <<>> THEN <<>>
  ELSE LET ln == Head(output) IN
       (IF ln.kind = "pos" /\ ln.linter # ""
          THEN <<Issue(<<"lint-", ln.linter, "-">> \o sanitizeID(ln.file) \o <<"-", ToString(ln.line)>>,
                       "lint",
                       IF ln.linter \in {"errcheck", "staticcheck"} THEN "error" ELSE "warning",
                       <<"[", ln.linter, "]">> \o ln.msg, ln.msg,
                       ln.file, ln.line, ln.col, getLintSuggestion(ln.linter))>>
          ELSE <<>>) \o parseLintErrors(Tail(output))

\* one line of go test -json output: an event, or text that is not JSON
TestEvent(action, pkg, test) ==
  [json |-> TRUE, Action |-> action, Package |-> pkg, Test |-> test]
NotJSON == [json |-> FALSE, Action |-> "", Package |-> <<>>, Test |-> <<>>]

RECURSIVE parseTestErrors(_)
\* Diagnoser.parseTestErrors
parseTestErrors(output) ==
  IF output = <<>> THEN <<>>
  ELSE LET ev == Head(output) IN
       (IF ev.json /\ ev.Action = "fail" /\ ev.Test # <<>>
          THEN <<Issue(<<"test-fail-">> \o sanitizeID(ev.Package) \o <<"-">> \o sanitizeID(ev.Test),
                       "test", "error", <<"Test failed:">> \o ev.Test,
                       <<"Test">> \o ev.Test \o <<"in package">> \o ev.Package \o <<"failed">>,
                       <<>>, 0, 0, <<>>)>>
          ELSE <<>>) \o parseTestErrors(Tail(output))

\* Diagnoser.parseRuntimeErrors: output is the whole text of the program
parseRuntimeErrors(output) ==
  (IF \E i \in 1..(Len(output) - 1) : output[i] = "panic:"
     THEN <<Issue(<<"runtime-panic">>, "runtime", "critical", <<"Runtime panic">>,
                  SubSeq(output, (CHOOSE i \in 1..(Len(output) - 1) :
                                    /\ output[i] = "panic:"
                                    /\ \A j \in 1..(i - 1) : output[j] # "panic:") + 1,
                         Len(output)),
                  <<>>, 0, 0,
                  <<"Review the panic stack trace and fix the root cause">>)>>
     ELSE <<>>)
  \o (IF HasWord(output, "nil pointer dereference")
        THEN <<Issue(<<"runtime-nil-pointer">>, "runtime", "critical",
                     <<"Nil pointer dereference">>,
                     <<"The program attempted to access a nil pointer">>, <<>>, 0, 0,
                     <<"Add nil checks before accessing pointers">>)>>
        ELSE <<>>)
  \o (IF HasWord(output, "index out of range")
        THEN <<Issue(<<"runtime-index-out-of-range">>, "runtime", "critical",
                     <<"Index out of range">>, <<"Array/slice index out of bounds">>,
                     <<>>, 0, 0,
                     <<"Add bounds checking before accessing array/slice elements">>)>>
        ELSE <<>>)

\* ------------------------------------------------ project and toolchain
FileA == <<".", "/", "a", ".", "go">>
FileB == <<"pkg", "/", "a", ".", "go">>
BuildFiles == {FileA, FileB}
LineNos == {3, 7}
ColNos == {5, 9}
MsgUndefined == <<"undefined:", "x">>
MsgNoField == <<"p", ".", "foo", "undefined", "(type T has no field or method foo)">>
MsgImport == <<"could not import", "m", "/", "pkg">>
MsgUnused == <<"y", "declared but not used">>
MsgCannotUse == <<"cannot use", "s", "as int value">>
MsgOther == <<"missing return">>
BuildMsgs == {MsgUndefined, MsgNoField, MsgImport, MsgUnused, MsgCannotUse, MsgOther}
NoModule == <<"go:", "go.mod file not found in current directory or any parent directory">>
PlainTexts == {NoModule, <<"link error">>}

\* the lines go build can print
BuildLines ==
  {PosLine(f, l, c, m) : f \in BuildFiles, l \in LineNos, c \in ColNos, m \in BuildMsgs}
    \cup {PlainLine(m) : m \in PlainTexts}

\* what a directory holds and what the go tools do when run in it
\*   goMod       go.mod exists
\*   verifyErr   go mod verify exits non-zero
\*   tidyUnused  the output of go mod tidy -v contains "unused"
\*   buildErr, buildOut   go build -v ./...
\*   lintErr, lintOut     golangci-lint run, or go vet ./... without it
\*   testErr, testOut     go test -v -json ./...
\*   mainFiles   which of the locations findMainFile looks at exist
\*   runEnd, runOut       go run <main>: "ok", "exit" (non-zero), "deadline"
KHealthy ==
  [goMod |-> TRUE, verifyErr |-> FALSE, tidyUnused |-> FALSE,
   buildErr |-> FALSE, buildOut |-> <<>>, lintErr |-> FALSE, lintOut |-> <<>>,
   testErr |-> FALSE, testOut |-> <<>>, mainFiles |-> {"main.go"},
   runEnd |-> "ok", runOut |-> <<>>]
KNoModule ==
  [goMod |-> FALSE, verifyErr |-> TRUE, tidyUnused |-> FALSE,
   buildErr |-> TRUE, buildOut |-> <<PlainLine(NoModule)>>,
   lintErr |-> TRUE, lintOut |-> <<PlainLine(NoModule)>>,
   testErr |-> TRUE, testOut |-> <<NotJSON>>, mainFiles |-> {"cmd/main.go"},
   runEnd |-> "deadline", runOut |-> <<>>]
KUndefined ==
  [goMod |-> TRUE, verifyErr |-> FALSE, tidyUnused |-> TRUE,
   buildErr |-> TRUE,
   buildOut |-> <<PlainLine(<<"#", "m">>), PosLine(FileA, 3, 5, MsgUndefined),
                  PosLine(FileA, 7, 5, MsgUndefined)>>,
   lintErr |-> TRUE,
   lintOut |-> <<LintLine(FileA, 3, 5, MsgUndefined, "typecheck")>>,
   testErr |-> TRUE,
   testOut |-> <<NotJSON, TestEvent("fail", <<"m">>, <<>>)>>,
   mainFiles |-> {}, runEnd |-> "exit", runOut |-> <<"no such file or directory">>]
KPanics ==
  [goMod |-> TRUE, verifyErr |-> FALSE, tidyUnused |-> FALSE,
   buildErr |-> FALSE, buildOut |-> <<>>,
   lintErr |-> TRUE,
   lintOut |-> <<LintLine(FileB, 7, 9, <<"Error return value is not checked">>, "errcheck")>>,
   testErr |-> TRUE,
   testOut |-> <<TestEvent("run", <<"m">>, <<"TestX">>),
                 TestEvent("fail", <<"m">>, <<"TestX">>),
                 TestEvent("fail", <<"m">>, <<>>)>>,
   mainFiles |-> {"main.go"}, runEnd |-> "exit",
   runOut |-> <<"panic:", "runtime error:", "nil pointer dereference">>]
ProjectKinds == {KHealthy, KNoModule, KUndefined, KPanics}

\* the directory the process is started in, the project directories, and a
\* project path os.Chdir cannot enter
Home == "home"
ProjA == "pA"
ProjB == "pB"
ProjGone == "pGone"
Dirs == {Home, ProjA, ProjB}
ProjectPaths == {ProjA, ProjB, ProjGone}

\* ------------------------------------------------------------- slices
\* a Go slice value: the array it points into, its length and capacity
NilSlice == [arr |-> 0, len |-> 0, cap |-> 0]
ZeroIssue == Issue(<<>>, "", "", <<>>, <<>>, <<>>, 0, 0, <<>>)

\* the elements a slice value shows
View(hp, s) == IF s.len = 0 THEN <<>> ELSE SubSeq(hp[s.arr], 1, s.len)

\* append(s, x), st = [hp: the arrays allocated so far, s: the slice]: in
\* place when there is capacity, else into a new array of twice the capacity
appendIssue(st, x) ==
  IF st.s.len < st.s.cap
    THEN [hp |-> [st.hp EXCEPT ![st.s.arr][st.s.len + 1] = x],
          s |-> [st.s EXCEPT !.len = @ + 1]]
    ELSE LET newcap == IF st.s.cap = 0 THEN 1 ELSE 2 * st.s.cap
             arr == [i \in 1..newcap |->
                       IF i <= st.s.len THEN st.hp[st.s.arr][i]
                       ELSE IF i = st.s.len + 1 THEN x ELSE ZeroIssue]
         IN [hp |-> Append(st.hp, arr),
             s |-> [arr |-> Len(st.hp) + 1, len |-> st.s.len + 1, cap |-> newcap]]

RECURSIVE addIssues(_, _)
\* for _, issue := range issues { d.addIssue(issue) }
addIssues(st, issues) ==
  IF issues = <<>> THEN st
  ELSE addIssues(appendIssue(st, Head(issues)), Tail(issues))

\* ----------------------------------------------------------- the checks
\* each check, run in a directory of kind k: the issues it adds, in order,
\* whether its command failed, the success flag it returns, and whether it
\* started a process
checkConfig(k) ==
  [issues |-> IF ~k.goMod
                THEN <<Issue(<<"config-go-mod-missing">>, "config", "critical",
                             <<"go.mod file missing">>,
                             <<"Project is not a Go module. Run 'go mod init' to initialize.">>,
                             <<>>, 0, 0, <<"Run: go mod init <module-name>">>)>>
                ELSE <<>>,
   failed |-> ~k.goMod, ok |-> TRUE, started |-> FALSE]

checkDependencies(k) ==
  [issues |-> (IF k.verifyErr
                 THEN <<Issue(<<"dep-verify-failed">>, "dependency", "warning",
                              <<"Dependency verification failed">>, <<>>, <<>>, 0, 0,
                              <<"Run 'go mod tidy' and 'go mod download' to fix dependencies">>)>>
                 ELSE <<>>)
              \o (IF k.tidyUnused
                    THEN <<Issue(<<"dep-unused">>, "dependency", "info",
                                 <<"Unused dependencies detected">>,
                                 <<"Some dependencies are not used in the code">>,
                                 <<>>, 0, 0, <<"Run 'go mod tidy' to clean up">>)>>
                    ELSE <<>>),
   failed |-> k.verifyErr, ok |-> TRUE, started |-> TRUE]

checkBuild(k) ==
  [issues |-> IF k.buildErr THEN parseBuildErrors(k.buildOut) ELSE <<>>,
   failed |-> k.buildErr, ok |-> ~k.buildErr, started |-> TRUE]

checkLint(k, golangci) ==
  [issues |-> IF ~k.lintErr THEN <<>>
              ELSE IF golangci THEN parseLintErrors(k.lintOut)
              ELSE parseVetErrors(k.lintOut),
   failed |-> k.lintErr, ok |-> TRUE, started |-> TRUE]

checkTests(k) ==
  [issues |-> IF k.testErr THEN parseTestErrors(k.testOut) ELSE <<>>,
   failed |-> k.testErr, ok |-> ~k.testErr, started |-> TRUE]

MainLocations == <<"main.go", "cmd/main.go", "cmd/server/main.go", "cmd/app/main.go">>

\* Diagnoser.findMainFile: the first location that exists; after the walk
\* the list of locations still starts with the four fixed ones
findMainFile(k) ==
  LET idx == {i \in 1..Len(MainLocations) : MainLocations[i] \in k.mainFiles}
  IN IF idx # {} THEN MainLocations[CHOOSE i \in idx : \A j \in idx : i <= j]
     ELSE MainLocations[1]

\* a runtime check that counts an expired deadline as a failed run
checkRuntimeStrict(k) ==
  [issues |-> IF k.runEnd # "ok" THEN parseRuntimeErrors(k.runOut) ELSE <<>>,
   failed |-> k.runEnd # "ok", ok |-> k.runEnd = "ok", started |-> TRUE]

\* Diagnoser.checkRuntime: go run <main> under a deadline of ten seconds
checkRuntime(k) ==
  IF findMainFile(k) = ""
    THEN [issues |-> <<>>, failed |-> FALSE, ok |-> TRUE, started |-> FALSE]
    ELSE [issues |-> IF k.runEnd = "exit" THEN parseRuntimeErrors(k.runOut) ELSE <<>>,
          failed |-> k.runEnd = "exit", ok |-> k.runEnd # "exit", started |-> TRUE]

\* Diagnoser.countByCategory
countByCategory(issues, category) ==
  Cardinality({i \in 1..Len(issues) : issues[i].Category = category})

\* the number of issues of a level
countByLevel(issues, level) ==
  Cardinality({i \in 1..Len(issues) : issues[i].Level = level})

\* one "  - <label>: n" line of the summary
SummaryPart(enabled, issues, category, label) ==
  IF enabled /\ countByCategory(issues, category) > 0
    THEN <<label, ToString(countByCategory(issues, category))>>
    ELSE <<>>

Healthy == <<"No issues found. Project is healthy!">>

\* the case of no issues is not told apart
generateSummaryMut(config, issues) ==
  <<"Found", ToString(Len(issues)), "issue(s):">>
    \o SummaryPart(config.CheckConfig, issues, "config", "Config:")
    \o SummaryPart(config.CheckBuild, issues, "build", "Build:")

\* Diagnoser.generateSummary
generateSummary(config, issues) ==
  IF Len(issues) = 0 THEN Healthy
  ELSE <<"Found", ToString(Len(issues)), "issue(s):">>
       \o SummaryPart(config.CheckConfig, issues, "config", "Config:")
       \o SummaryPart(config.CheckDeps, issues, "dependency", "Dependencies:")
       \o SummaryPart(config.CheckBuild, issues, "build", "Build:")
       \o SummaryPart(config.CheckLint, issues, "lint", "Lint:")
       \o SummaryPart(config.CheckTests, issues, "test", "Tests:")
       \o SummaryPart(config.CheckRuntime, issues, "runtime", "Runtime:")

\* ---------------------------------------------------------------- state
VARIABLES
  cfg,          \* main.Config as handed to the services and the Engine
  req,          \* the *Request Execute works on (Instruction is mutated)
  req0,         \* the request as it was when Execute was called
  fs,           \* content of each file under the root, or Absent
  fs0,          \* fs when the run started
  backups,      \* the backup files under .ai-backup
  clock,        \* time.Now() in seconds
  pa,           \* promptAdapter fields mode, inst, files
  pc,           \* position of Execute
  attempt,      \* loop variable of Execute
  result,       \* *Result
  fileContents, \* local of the loop body
  prompt,       \* local of the loop body
  response,     \* local of the loop body
  codeBlocks,   \* local of the loop body
  cancelled,    \* ctx.Err() != nil
  h             \* history of the run (observations, not program state)

\* the target files of a request: distinct paths under the root
TargetFiles == DistinctSeqUpTo(Paths, MaxFiles)
Modes == {"fix"}
Instructions == {<<"add checks">>}
WorkDirs == {"", "proj"}
RetryValues == 0..MaxRetriesBound

NoResponse == <<>>
EmptyMap == [p \in {} |-> ""]
NoExec == [exitCode |-> -1, stderr |-> "", err |-> Nil]

\* the values of the loop body's locals before they are assigned
FreshLocals ==
  /\ fileContents' = EmptyMap
  /\ prompt' = <<>>
  /\ response' = NoResponse
  /\ codeBlocks' = <<>>

\* ------------------------------------------------------- diagnose state
VARIABLES
  cwd,    \* the working directory of the process
  env,    \* the project directories and the toolchain (never changes)
  dg,     \* the Diagnoser instances: config and issues (a slice)
  heap,   \* the arrays the issue slices point into
  th,     \* the goroutines calling Run: position and locals of Run
  rets,   \* what the Run calls returned so far, in order
  po      \* input and output of a parseBuildErrors call

execVars == <<cfg, req, req0, fs, fs0, backups, clock, pa, pc, attempt, result,
              fileContents, prompt, response, codeBlocks, cancelled, h>>
diagVars == <<cwd, env, dg, heap, th, rets, po>>
vars == <<execVars, diagVars>>

Diagnosers == {1, 2}
Threads == {1, 2}

\* diagnose.Config: the fields Run reads
DiagConfigs(paths, optional) ==
  {c \in [ProjectPath : paths, CheckConfig : BOOLEAN, CheckDeps : BOOLEAN,
          CheckBuild : BOOLEAN, CheckLint : BOOLEAN, CheckTests : BOOLEAN,
          CheckRuntime : BOOLEAN] :
     /\ c.CheckDeps => "deps" \in optional
     /\ c.CheckLint => "lint" \in optional
     /\ c.CheckTests => "tests" \in optional
     /\ c.CheckRuntime => "runtime" \in optional}

\* the checks a Config enables
Enabled(c) ==
  {n \in {"config", "dependency", "build", "lint", "test", "runtime"} :
     \/ n = "config" /\ c.CheckConfig
     \/ n = "dependency" /\ c.CheckDeps
     \/ n = "build" /\ c.CheckBuild
     \/ n = "lint" /\ c.CheckLint
     \/ n = "test" /\ c.CheckTests
     \/ n = "runtime" /\ c.CheckRuntime}

\* NewDiagnoser: issues = make([]Issue, 0)
NewDiagnoser(config) == [config |-> config, issues |-> NilSlice]

NoFlags == [BuildSuccess |-> FALSE, TestSuccess |-> FALSE, RunSuccess |-> FALSE]
IdleThread ==
  [pc |-> "idle", d |-> 0, originalDir |-> "", flags |-> NoFlags,
   ran |-> {}, order |-> <<>>, failed |-> {}, launched |-> {}, inOwnDir |-> TRUE,
   got |-> NilSlice]
NoParse == [output |-> <<>>, issues |-> <<>>, parsed |-> TRUE]

\* no Run call was made
DiagQuiet ==
  /\ cwd = Home
  /\ env = [golangci |-> FALSE, dir |-> [x \in Dirs |-> KHealthy]]
  /\ dg = [d \in Diagnosers |->
             NewDiagnoser(CHOOSE c \in DiagConfigs({ProjA}, {}) :
                            ~c.CheckConfig /\ ~c.CheckBuild)]
  /\ heap = <<>>
  /\ th = [t \in Threads |-> IdleThread]
  /\ rets = <<>>

\* the diagnose package is not in use
DiagIdle == DiagQuiet /\ po = NoParse

\* no Execute call is in progress
ExecIdle ==
  /\ cfg = [MaxRetries |-> 0, DryRun |-> FALSE, BuildVerify |-> FALSE, NoBackup |-> FALSE]
  /\ req = [Mode |-> "fix", Files |-> <<>>, Instruction |-> <<>>, WorkDir |-> ""]
  /\ req0 = req
  /\ fs = [p \in FsPaths |-> Absent]
  /\ fs0 = fs
  /\ backups = {}
  /\ clock = 0
  /\ pa = [mode |-> "", inst |-> <<>>, files |-> EmptyMap]
  /\ pc = "done"
  /\ attempt = 0
  /\ result = [Success |-> FALSE, FilesWritten |-> <<>>, Output |-> NoResponse,
               Attempts |-> 0, Error |-> Nil]
  /\ fileContents = EmptyMap
  /\ prompt = <<>>
  /\ response = NoResponse
  /\ codeBlocks = <<>>
  /\ cancelled = FALSE
  /\ h = [allVerifyFailed |-> TRUE, firstKind |-> "none", firstErr |-> Nil,
          lastKind |-> "none", llmCalls |-> 0, writeCalls |-> 0, buildCalls |-> 0,
          lastExec |-> NoExec, written |-> {}, unverified |-> FALSE,
          cancelAt |-> "none"]

Init ==
  /\ cfg \in {c \in [MaxRetries : RetryValues, DryRun : BOOLEAN,
                     BuildVerify : BOOLEAN, NoBackup : BOOLEAN] :
                \* run(): BuildVerify = !DryRun; an Engine built directly
                \* has no dry-run flag and may have either BuildVerify
                c.DryRun => ~c.BuildVerify}
  /\ req \in [Mode : Modes, Files : TargetFiles,
              Instruction : Instructions, WorkDir : WorkDirs]
  /\ req0 = req
  /\ fs \in {f \in [FsPaths -> {Orig, Absent}] :
               /\ f["a.go"] = Orig
               /\ \A p \in ExtraNames : f[p] = Absent}
  /\ fs0 = fs
  /\ backups = {}
  /\ clock = 0
  /\ pa = [mode |-> "", inst |-> <<>>, files |-> EmptyMap]
  /\ pc = "loop"
  /\ attempt = 0
  /\ result = [Success |-> FALSE, FilesWritten |-> <<>>, Output |-> NoResponse,
               Attempts |-> 0, Error |-> Nil]
  /\ fileContents = EmptyMap
  /\ prompt = <<>>
  /\ response = NoResponse
  /\ codeBlocks = <<>>
  /\ cancelled = FALSE
  /\ h = [allVerifyFailed |-> TRUE,  \* every finished attempt failed verification
          firstKind |-> "none",      \* the step attempt 1 failed in, or "ok"
          firstErr |-> Nil,          \* the error that step returned in attempt 1
          lastKind |-> "none",       \* the same for the latest finished attempt
          llmCalls |-> 0,            \* Chat calls made
          writeCalls |-> 0,          \* writeFiles calls made
          buildCalls |-> 0,          \* build commands run
          lastExec |-> NoExec,       \* what the last build command returned
          written |-> {},            \* paths a WriteFile call succeeded on
          unverified |-> FALSE,      \* files written since the last build that exited 0
          cancelAt |-> "none"]       \* where in the current attempt ctx was cancelled
  /\ DiagIdle

\* bookkeeping when the current attempt ends in step kind with error e
Ended(hist, kind, e) ==
  [hist EXCEPT !.firstKind = IF attempt = 1 THEN kind ELSE @,
               !.firstErr = IF attempt = 1 THEN e ELSE @,
               !.lastKind = kind,
               !.allVerifyFailed = @ /\ kind = "build"]

\* ---------------------------------------------------------------- Execute
\* for attempt := 1; attempt <= MaxRetries; attempt++ { result.Attempts = attempt
LoopHead ==
  /\ pc = "loop"
  /\ IF LoopCond(attempt + 1, cfg.MaxRetries)
       THEN /\ attempt' = attempt + 1
            /\ result' = [result EXCEPT !.Attempts = attempt + 1]
            /\ h' = [h EXCEPT !.cancelAt = IF @ = "none" THEN "none" ELSE "earlier"]
            /\ pc' = "reading"
       ELSE /\ pc' = "done"
            /\ UNCHANGED <<attempt, result, h>>
  /\ UNCHANGED <<cfg, req, req0, fs, fs0, backups, clock, pa, fileContents,
                 prompt, response, codeBlocks, cancelled>>
  /\ UNCHANGED diagVars

\* fileContents, err := e.readFiles(req.Files)
ReadFiles ==
  /\ pc = "reading"
  /\ LET missing == FirstMissing(fs, req.Files)
         err == Err(<<missing>> \o ErrFileNotFound)
     IN IF missing # NoTarget
          THEN /\ result' = [result EXCEPT !.Error = Wrap("read files:", err)]
               /\ h' = Ended(h, "read", err)
               /\ pc' = "loop"
               /\ UNCHANGED fileContents
          ELSE /\ fileContents' = [p \in Range(req.Files) |-> fs[p]]
               /\ pc' = "prompting"
               /\ UNCHANGED <<result, h>>
  /\ UNCHANGED <<cfg, req, req0, fs, fs0, backups, clock, pa, attempt,
                 prompt, response, codeBlocks, cancelled>>
  /\ UNCHANGED diagVars

\* promptAdapter.AddFile for every entry of fileContents
AddFiles(files, contents) ==
  [p \in DOMAIN files \cup DOMAIN contents |->
     IF p \in DOMAIN contents THEN contents[p] ELSE files[p]]

\* prompt, err := e.buildPrompt(req, fileContents), through promptAdapter
BuildPrompt ==
  /\ pc = "prompting"
  /\ LET files == AddFiles(pa.files, fileContents)
         text == buildUserPrompt(req.Mode, req.Instruction, files)
         err == Err(ErrPrompt)
     IN /\ pa' = [mode |-> req.Mode, inst |-> req.Instruction, files |-> files]
        /\ \E fails \in BOOLEAN :
             IF fails
               THEN /\ result' = [result EXCEPT !.Error = Wrap("build prompt:", err)]
                    /\ h' = Ended(h, "prompt", err)
                    /\ pc' = "loop"
                    /\ FreshLocals
               ELSE /\ prompt' = text
                    /\ pc' = "calling"
                    /\ UNCHANGED <<result, h, fileContents, response, codeBlocks>>
  /\ UNCHANGED <<cfg, req, req0, fs, fs0, backups, clock, attempt, cancelled>>
  /\ UNCHANGED diagVars

\* response, err := e.llm.Chat(ctx, prompt): the request is sent
CallLLM ==
  /\ pc = "calling"
  /\ pc' = "llm_wait"
  /\ h' = [h EXCEPT !.llmCalls = @ + 1]
  /\ UNCHANGED <<cfg, req, req0, fs, fs0, backups, clock, pa, attempt, result,
                 fileContents, prompt, response, codeBlocks, cancelled>>
  /\ UNCHANGED diagVars

\* what Chat can return: httpClient.Do fails once ctx is cancelled
ChatErrors == IF cancelled THEN {Err(ErrCtxCanceled)}
              ELSE {Nil} \cup {Err(m) : m \in LLMErrs}

\* Chat returns
ChatReturn ==
  /\ pc = "llm_wait"
  /\ \E err \in ChatErrors :
       IF ~err.isNil
         THEN /\ result' = [result EXCEPT !.Error = Wrap("LLM call:", err)]
              /\ h' = Ended(h, "llm", err)
              /\ IF ~isRetryable(err)
                   THEN pc' = "done" /\ UNCHANGED <<fileContents, prompt, response, codeBlocks>>
                   ELSE pc' = "loop" /\ FreshLocals
         ELSE /\ \E r \in Responses : response' = r
              /\ pc' = "parsing"
              /\ UNCHANGED <<result, h, fileContents, prompt, codeBlocks>>
  /\ UNCHANGED <<cfg, req, req0, fs, fs0, backups, clock, pa, attempt, cancelled>>
  /\ UNCHANGED diagVars

\* a response without code blocks ends the loop
ParseResponseAborts ==
  /\ pc = "parsing"
  /\ LET blocks == parseCodeBlocks(response)
         err == Err(<<"no code blocks found in response">>)
     IN IF Len(blocks) = 0
          THEN /\ result' = [result EXCEPT !.Error = err]
               /\ h' = Ended(h, "parse", err)
               /\ pc' = "done"
               /\ FreshLocals
          ELSE /\ codeBlocks' = blocks
               /\ pc' = "writing"
               /\ UNCHANGED <<result, h, fileContents, prompt, response>>
  /\ UNCHANGED <<cfg, req, req0, fs, fs0, backups, clock, pa, attempt, cancelled>>
  /\ UNCHANGED diagVars

\* codeBlocks := e.parseCodeBlocks(response)
ParseResponse ==
  /\ pc = "parsing"
  /\ LET blocks == parseCodeBlocks(response)
         err == Err(<<"no code blocks found in response">>)
     IN IF Len(blocks) = 0
          THEN /\ result' = [result EXCEPT !.Error = err]
               /\ h' = Ended(h, "parse", err)
               /\ pc' = "loop"
               /\ FreshLocals
          ELSE /\ codeBlocks' = blocks
               /\ pc' = "writing"
               /\ UNCHANGED <<result, h, fileContents, prompt, response>>
  /\ UNCHANGED <<cfg, req, req0, fs, fs0, backups, clock, pa, attempt, cancelled>>
  /\ UNCHANGED diagVars

\* time.Now() at the next backup: the same second as the last one or a later one
Nows == IF cfg.NoBackup THEN {clock}
        ELSE {clock, IF clock < MaxClock THEN clock + 1 ELSE clock}

\* written, err := e.writeFiles(req.Files, codeBlocks), through fileAdapter;
\* k = the number of WriteFile calls that succeed before one fails
WriteFiles ==
  /\ pc = "writing"
  /\ LET plan == WritePlan(req.Files, codeBlocks) IN
     \E k \in 0..Len(plan), now \in Nows :
       LET st == WriteSeq([fs |-> fs, backups |-> backups], plan, 1, k, now,
                          ~cfg.NoBackup)
           written == [i \in 1..k |-> plan[i].path]
           hw == [h EXCEPT !.writeCalls = @ + 1,
                           !.written = @ \cup Range(written),
                           !.unverified = @ \/ k > 0]
       IN /\ fs' = st.fs
          /\ backups' = st.backups
          /\ clock' = now
          /\ IF k < Len(plan)
               THEN LET err == Err(<<plan[k + 1].path>> \o ErrWriteIO) IN
                    /\ result' = [result EXCEPT !.Error = Wrap("write files:", err)]
                    /\ h' = Ended(hw, "write", err)
                    /\ pc' = "loop"
                    /\ FreshLocals
               ELSE /\ result' = [result EXCEPT !.FilesWritten = written]
                    /\ h' = hw
                    /\ pc' = "verifying"
                    /\ UNCHANGED <<fileContents, prompt, response, codeBlocks>>
  /\ UNCHANGED <<cfg, req, req0, fs0, pa, attempt, cancelled>>
  /\ UNCHANGED diagVars

\* result.Success = true; result.Output = response; result.Error = nil; break
Succeed ==
  /\ result' = [result EXCEPT !.Success = TRUE, !.Output = response, !.Error = Nil]
  /\ pc' = "done"
  /\ UNCHANGED <<fileContents, prompt, response, codeBlocks>>

\* if e.config.BuildVerify && req.WorkDir != "" { e.verifyBuild(...) }:
\* the build command is started, or verification is skipped
VerifyStart ==
  /\ pc = "verifying"
  /\ IF cfg.BuildVerify /\ req.WorkDir # ""
       THEN /\ pc' = "build_wait"
            /\ h' = [h EXCEPT !.buildCalls = @ + 1]
            /\ UNCHANGED <<result, fileContents, prompt, response, codeBlocks>>
       ELSE /\ Succeed
            /\ h' = Ended(h, "ok", Nil)
  /\ UNCHANGED <<cfg, req, req0, fs, fs0, backups, clock, pa, attempt, cancelled>>
  /\ UNCHANGED diagVars

\* what execAdapter.ExecuteInDir can return: it runs the command under
\* context.Background(), so the outcome does not depend on ctx
ExecOutcomes ==
  {[exitCode |-> 0, stderr |-> "", err |-> Nil]}
    \cup {[exitCode |-> 1, stderr |-> e, err |-> Nil] : e \in BuildErrs}
    \cup {[exitCode |-> -1, stderr |-> "", err |-> Err(ErrExec)]}

\* the build command returns
VerifyReturn ==
  /\ pc = "build_wait"
  /\ \E o \in ExecOutcomes :
       LET err == verifyBuild(o.exitCode, o.stderr, o.err)
           hb == [h EXCEPT !.lastExec = o,
                           !.unverified = IF o.exitCode = 0 /\ o.err.isNil THEN FALSE ELSE @]
       IN IF ~err.isNil
            THEN /\ result' = [result EXCEPT !.Error = Wrap("build failed:", err)]
                 /\ req' = [req EXCEPT !.Instruction = appendBuildError(req.Instruction, err)]
                 /\ h' = Ended(hb, "build", err)
                 /\ pc' = "loop"
                 /\ FreshLocals
            ELSE /\ Succeed
                 /\ h' = Ended(hb, "ok", Nil)
                 /\ UNCHANGED req
  /\ UNCHANGED <<cfg, req0, fs, fs0, backups, clock, pa, attempt, cancelled>>
  /\ UNCHANGED diagVars

\* the signal handler of main(): cancel().  ctx is consulted only inside
\* Chat, so a cancellation at any other point of Execute acts like one at the
\* start of the next wait; the action is taken at the two waits
Cancel ==
  /\ pc \in {"llm_wait", "build_wait"}
  /\ ~cancelled
  /\ cancelled' = TRUE
  /\ h' = [h EXCEPT !.cancelAt = IF pc = "llm_wait" THEN "llm" ELSE "build"]
  /\ UNCHANGED <<cfg, req, req0, fs, fs0, backups, clock, pa, pc, attempt, result,
                 fileContents, prompt, response, codeBlocks>>
  /\ UNCHANGED diagVars

Next ==
  \/ LoopHead
  \/ ReadFiles
  \/ BuildPrompt
  \/ CallLLM
  \/ ChatReturn
  \/ ParseResponse
  \/ WriteFiles
  \/ VerifyStart
  \/ VerifyReturn
  \/ Cancel

Spec == Init /\ [][Next]_vars

\* Execute is called again on the same Engine, with another Request and a
\* context of its own, after the call before it returned: result and the
\* locals are new, the services of the Engine (promptAdapter, Manager) and
\* the files are what the earlier calls left
NextCall ==
  /\ pc = "done"
  /\ req' \in [Mode : Modes, Files : TargetFiles,
               Instruction : Instructions, WorkDir : WorkDirs]
  /\ req0' = req'
  /\ fs0' = fs
  /\ pc' = "loop"
  /\ attempt' = 0
  /\ result' = [Success |-> FALSE, FilesWritten |-> <<>>, Output |-> NoResponse,
                Attempts |-> 0, Error |-> Nil]
  /\ FreshLocals
  /\ cancelled' = FALSE
  /\ h' = [allVerifyFailed |-> TRUE, firstKind |-> "none", firstErr |-> Nil,
           lastKind |-> "none", llmCalls |-> 0, writeCalls |-> 0, buildCalls |-> 0,
           lastExec |-> NoExec, written |-> {}, unverified |-> FALSE,
           cancelAt |-> "none"]
  /\ UNCHANGED <<cfg, fs, backups, clock, pa>>
  /\ UNCHANGED diagVars

\* any number of Execute calls on one Engine, built as run() builds it for
\* a command without --dry-run and with --no-backup, with one attempt a call
InitCalls ==
  /\ Init
  /\ cfg = [MaxRetries |-> 1, DryRun |-> FALSE, BuildVerify |-> TRUE, NoBackup |-> TRUE]

NextCalls ==
  \/ Next
  \/ NextCall

SpecCalls == InitCalls /\ [][NextCalls]_vars

\* ------------------------------------------------- parse and write alone
\* Engine.parseCodeBlocks and Engine.writeFiles applied to bounded inputs:
\* a response to parse and write, or code blocks handed to writeFiles as
\* they are (a CodeBlock may carry a Filename)
BlockNames == {""} \cup ExtraNames
DirectBlocks ==
  SeqUpTo({CodeBlock("go", c, n) : c \in Codes, n \in BlockNames}, MaxBlocks) \ {<<>>}

InitWrite ==
  /\ cfg \in [MaxRetries : {1}, DryRun : {FALSE}, BuildVerify : {TRUE},
              NoBackup : BOOLEAN]
  /\ req \in [Mode : Modes, Files : TargetFiles,
              Instruction : Instructions, WorkDir : {"proj"}]
  /\ req0 = req
  /\ fs \in {f \in [FsPaths -> {Orig, Absent}] :
               /\ f["a.go"] = Orig
               /\ \A p \in ExtraNames : f[p] = Absent}
  /\ fs0 = fs
  /\ backups = {}
  /\ clock = 0
  /\ pa = [mode |-> "", inst |-> <<>>, files |-> EmptyMap]
  /\ attempt = 1
  /\ result = [Success |-> FALSE, FilesWritten |-> <<>>, Output |-> NoResponse,
               Attempts |-> 1, Error |-> Nil]
  /\ fileContents = EmptyMap
  /\ prompt = <<>>
  /\ \/ pc = "parsing" /\ response \in Responses /\ codeBlocks = <<>>
     \/ pc = "writing" /\ response = NoResponse /\ codeBlocks \in DirectBlocks
  /\ cancelled = FALSE
  /\ h = [allVerifyFailed |-> TRUE, firstKind |-> "none", firstErr |-> Nil,
          lastKind |-> "none", llmCalls |-> 0, writeCalls |-> 0, buildCalls |-> 0,
          lastExec |-> NoExec, written |-> {}, unverified |-> FALSE,
          cancelAt |-> "none"]
  /\ DiagIdle

NextWrite ==
  \/ ParseResponse
  \/ WriteFiles

SpecWrite == InitWrite /\ [][NextWrite]_vars

\* ------------------------------------------------------- Diagnoser.Run
\* the working directory stays where the run left it
RestoreDirMut(current, originalDir) == current

\* defer os.Chdir(originalDir)
RestoreDir(current, originalDir) == originalDir

\* warnings are tallied as errors
TallyMut(issues) ==
  [TotalIssues |-> Len(issues),
   CriticalCount |-> countByLevel(issues, "critical"),
   ErrorCount |-> countByLevel(issues, "error") + countByLevel(issues, "warning"),
   WarningCount |-> 0]

\* "Compile results" of Run: the counts of the result
Tally(issues) ==
  [TotalIssues |-> Len(issues),
   CriticalCount |-> countByLevel(issues, "critical"),
   ErrorCount |-> countByLevel(issues, "error"),
   WarningCount |-> countByLevel(issues, "warning")]

\* what Run returns when os.Chdir fails: (nil, err)
ErrReturn(t, d) ==
  [t |-> t, d |-> d, err |-> TRUE, Issues |-> NilSlice, seen |-> <<>>,
   counts |-> Tally(<<>>), flags |-> NoFlags, Summary |-> <<>>,
   ran |-> {}, order |-> <<>>, failed |-> {}, launched |-> {}, inOwnDir |-> TRUE,
   cwdAtCall |-> cwd, cwdAtReturn |-> cwd]

\* Run is called on Diagnoser d by goroutine t: os.Getwd, os.Chdir
RunStart(t, d) ==
  /\ th[t].pc = "idle"
  /\ \A u \in Threads : th[u].pc # "idle" => th[u].d # d
  /\ IF dg[d].config.ProjectPath \notin Dirs
       THEN /\ rets' = Append(rets, ErrReturn(t, d))
            /\ UNCHANGED <<cwd, th>>
       ELSE /\ cwd' = dg[d].config.ProjectPath
            /\ th' = [th EXCEPT ![t] = [pc |-> "config", d |-> d, originalDir |-> cwd,
                                        flags |-> NoFlags, ran |-> {},
                                        order |-> <<>>, failed |-> {}, launched |-> {},
                                        inOwnDir |-> TRUE, got |-> th[t].got]]
            /\ UNCHANGED rets
  /\ UNCHANGED <<env, dg, heap, po>>
  /\ UNCHANGED execVars

\* one check of Run at position here: skipped when it is not enabled, else
\* run in the current working directory, with outcome c
RunCheck(t, here, next, enabled, category, c, flags) ==
  /\ th[t].pc = here
  /\ LET d == th[t].d
         st == addIssues([hp |-> heap, s |-> dg[d].issues], c.issues)
     IN IF enabled
          THEN /\ heap' = st.hp
               /\ dg' = [dg EXCEPT ![d].issues = st.s]
               /\ th' = [th EXCEPT ![t].pc = next,
                                   ![t].flags = flags,
                                   ![t].ran = @ \cup {category},
                                   ![t].order = Append(@, category),
                                   ![t].failed = IF c.failed THEN @ \cup {category} ELSE @,
                                   ![t].launched = IF c.started THEN @ \cup {category} ELSE @,
                                   ![t].inOwnDir = @ /\ cwd = dg[d].config.ProjectPath]
          ELSE /\ th' = [th EXCEPT ![t].pc = next]
               /\ UNCHANGED <<heap, dg>>
  /\ UNCHANGED <<cwd, env, rets, po>>
  /\ UNCHANGED execVars

\* if d.config.CheckConfig { d.checkConfig(ctx) }
StepConfig(t) ==
  RunCheck(t, "config", "deps", dg[th[t].d].config.CheckConfig, "config",
           checkConfig(env.dir[cwd]), th[t].flags)

\* if d.config.CheckDeps { d.checkDependencies(ctx) }
StepDeps(t) ==
  RunCheck(t, "deps", "build", dg[th[t].d].config.CheckDeps, "dependency",
           checkDependencies(env.dir[cwd]), th[t].flags)

\* if d.config.CheckBuild { result.BuildSuccess = d.checkBuild(ctx) }
StepBuild(t) ==
  RunCheck(t, "build", "lint", dg[th[t].d].config.CheckBuild, "build",
           checkBuild(env.dir[cwd]),
           [th[t].flags EXCEPT !.BuildSuccess = checkBuild(env.dir[cwd]).ok])

\* if d.config.CheckLint { d.checkLint(ctx) }
StepLint(t) ==
  RunCheck(t, "lint", "tests", dg[th[t].d].config.CheckLint, "lint",
           checkLint(env.dir[cwd], env.golangci), th[t].flags)

\* if d.config.CheckTests { result.TestSuccess = d.checkTests(ctx) }
StepTests(t) ==
  RunCheck(t, "tests", "runtime", dg[th[t].d].config.CheckTests, "test",
           checkTests(env.dir[cwd]),
           [th[t].flags EXCEPT !.TestSuccess = checkTests(env.dir[cwd]).ok])

\* if d.config.CheckRuntime { result.RunSuccess = d.checkRuntime(ctx) }
StepRuntime(t) ==
  RunCheck(t, "runtime", "compile", dg[th[t].d].config.CheckRuntime, "runtime",
           checkRuntime(env.dir[cwd]),
           [th[t].flags EXCEPT !.RunSuccess = checkRuntime(env.dir[cwd]).ok])

\* "Compile results", return result, nil, and the deferred os.Chdir
RunReturn(t) ==
  /\ th[t].pc = "compile"
  /\ LET d == th[t].d
         issues == View(heap, dg[d].issues)
     IN /\ cwd' = RestoreDir(cwd, th[t].originalDir)
        /\ rets' = Append(rets,
             [t |-> t, d |-> d, err |-> FALSE, Issues |-> dg[d].issues,
              seen |-> issues, counts |-> Tally(issues), flags |-> th[t].flags,
              Summary |-> generateSummary(dg[d].config, issues),
              ran |-> th[t].ran, order |-> th[t].order, failed |-> th[t].failed,
              launched |-> th[t].launched,
              inOwnDir |-> th[t].inOwnDir,
              cwdAtCall |-> th[t].originalDir, cwdAtReturn |-> RestoreDir(cwd, th[t].originalDir)])
        /\ th' = [th EXCEPT ![t] = [IdleThread EXCEPT !.got = th[t].got]]
  /\ UNCHANGED <<env, dg, heap, po>>
  /\ UNCHANGED execVars

\* Diagnoser.GetIssues: the caller is handed the slice d.issues itself
GetIssues(t, d) ==
  /\ th[t].pc = "idle"
  /\ th[t].got # dg[d].issues
  /\ th' = [th EXCEPT ![t].got = dg[d].issues]
  /\ UNCHANGED <<cwd, env, dg, heap, rets, po>>
  /\ UNCHANGED execVars

\* ------------------------------------- Run calls one after the other
MaxRuns == 2

InitDiag ==
  /\ ExecIdle
  /\ cwd = Home
  /\ env \in [golangci : BOOLEAN,
              dir : {f \in [Dirs -> ProjectKinds] :
                       f[Home] = KHealthy /\ f[ProjB] = KHealthy}]
  /\ \E c \in DiagConfigs({ProjA, ProjGone}, {"deps", "lint", "tests", "runtime"}) :
       dg = [d \in Diagnosers |-> NewDiagnoser(c)]
  /\ heap = <<>>
  /\ th = [t \in Threads |-> IdleThread]
  /\ rets = <<>>
  /\ po = NoParse

\* the next Run call of the one goroutine, on either instance
SeqRun == \E d \in Diagnosers : Len(rets) < MaxRuns /\ RunStart(1, d)
SeqGetIssues == \E d \in Diagnosers : GetIssues(1, d)

NextDiag ==
  \/ SeqRun
  \/ StepConfig(1)
  \/ StepDeps(1)
  \/ StepBuild(1)
  \/ StepLint(1)
  \/ StepTests(1)
  \/ StepRuntime(1)
  \/ RunReturn(1)
  \/ SeqGetIssues

SpecDiag == InitDiag /\ [][NextDiag]_vars

\* --------------------------- two Run calls at once, one per goroutine
InitConc ==
  /\ ExecIdle
  /\ cwd = Home
  /\ env \in [golangci : {FALSE},
              dir : {f \in [Dirs -> ProjectKinds] : f[Home] = KHealthy}]
  /\ \E c1 \in DiagConfigs({ProjA}, {}), c2 \in DiagConfigs({ProjB}, {}) :
       dg = [d \in Diagnosers |-> NewDiagnoser(IF d = 1 THEN c1 ELSE c2)]
  /\ heap = <<>>
  /\ th = [t \in Threads |-> IdleThread]
  /\ rets = <<>>
  /\ po = NoParse

\* goroutine t calls Run on its own Diagnoser, once
ConcRun ==
  \E t \in Threads : (\A i \in 1..Len(rets) : rets[i].t # t) /\ RunStart(t, t)

NextConc ==
  \/ ConcRun
  \/ \E t \in Threads : StepConfig(t)
  \/ \E t \in Threads : StepDeps(t)
  \/ \E t \in Threads : StepBuild(t)
  \/ \E t \in Threads : StepLint(t)
  \/ \E t \in Threads : StepTests(t)
  \/ \E t \in Threads : StepRuntime(t)
  \/ \E t \in Threads : RunReturn(t)

SpecConc == InitConc /\ [][NextConc]_vars

\* ------------------------------------------- parseBuildErrors alone
MaxOutLines == 2

InitParse ==
  /\ ExecIdle
  /\ DiagQuiet
  /\ po \in [output : SeqUpTo(BuildLines, MaxOutLines), issues : {<<>>},
             parsed : {FALSE}]

ParseBuild ==
  /\ ~po.parsed
  /\ po' = [po EXCEPT !.issues = parseBuildErrors(po.output), !.parsed = TRUE]
  /\ UNCHANGED <<cwd, env, dg, heap, th, rets>>
  /\ UNCHANGED execVars

NextParse == ParseBuild

SpecParse == InitParse /\ [][NextParse]_vars

\* run(): the error the CLI exits with after Execute returned
RunError == IF ~result.Success THEN result.Error ELSE Nil

Done == pc = "done"

\* ================================================================ claims
\* the error Execute reports for a verification failure of the last build
LastVerifyError ==
  Wrap("build failed:",
       IF ~h.lastExec.err.isNil THEN h.lastExec.err ELSE Err(<<h.lastExec.stderr>>))

\* C1: when Execute returns, Result.Attempts is at least 1 and at most
\* Config.MaxRetries, for every configured MaxRetries.
C1_AttemptsInRange ==
  Done => (result.Attempts >= 1 /\ result.Attempts <= cfg.MaxRetries)

\* C2: when Execute returns, Success is true exactly when Error is nil, and
\* Attempts is the number of attempts started.
C2_SuccessXorError ==
  Done => ((result.Success <=> result.Error.isNil) /\ result.Attempts = attempt)

\* C3: if every attempt reaches build verification and fails it, Execute makes
\* exactly MaxRetries attempts, each with one LLM call, one writing step and
\* one build command, and returns Success=false with the verification error
\* of the final attempt.
C3_ExhaustsRetries ==
  (Done /\ attempt >= 1 /\ h.allVerifyFailed) =>
     /\ result.Attempts = cfg.MaxRetries
     /\ h.llmCalls = cfg.MaxRetries
     /\ h.writeCalls = cfg.MaxRetries
     /\ h.buildCalls = cfg.MaxRetries
     /\ ~result.Success
     /\ result.Error = LastVerifyError

C3_Witness ==
  Done /\ h.allVerifyFailed /\ attempt >= 2 /\ h.buildCalls >= 2 /\ ~result.Success

\* C4 (as stated): if attempt 1 fails, in whatever step, and attempt 2
\* succeeds, Execute returns Success=true, Attempts=2, and the text of attempt
\* 1's error is contained in the instruction given to the prompt service and
\* in the prompt sent on attempt 2.
C4_AnyFailureFedBack ==
  (Done /\ attempt = 2 /\ h.lastKind = "ok") =>
     /\ result.Success /\ result.Attempts = 2
     /\ Contains(pa.inst, h.firstErr.msg)
     /\ Contains(prompt, h.firstErr.msg)

\* C4 (amended): if attempt 1 fails build verification and attempt 2 succeeds,
\* Execute returns Success=true, Attempts=2, and the text of attempt 1's
\* verification error is contained in the instruction given to the prompt
\* service and in the prompt sent on attempt 2.
C4_BuildFailureFedBack ==
  (Done /\ attempt = 2 /\ h.firstKind = "build" /\ h.lastKind = "ok") =>
     /\ result.Success /\ result.Attempts = 2
     /\ Contains(pa.inst, h.firstErr.msg)
     /\ Contains(prompt, h.firstErr.msg)

C4_Witness ==
  /\ Done /\ attempt = 2 /\ h.firstKind = "build" /\ h.lastKind = "ok"
  /\ h.firstErr.msg = <<"undefined: x">>

\* C5: when the final permitted attempt fails after files were overwritten
\* with generated code, the target files are back at their pre-run content.
C5_RestoredOnFailure ==
  (Done /\ ~result.Success /\ attempt >= 1 /\ attempt = cfg.MaxRetries
        /\ h.lastKind # "ok" /\ h.written # {} /\ ~cfg.NoBackup) =>
     \A p \in FsPaths : fs[p] = fs0[p]

\* C6: with --dry-run no target file is written or modified during the run.
C6_DryRunWritesNothing ==
  cfg.DryRun => (fs = fs0 /\ h.written = {} /\ h.writeCalls = 0)

\* C7 (as stated): whenever Execute returns Success=true, the last write of
\* target files was followed by a build command that exited with code 0.
C7_SuccessIsVerified ==
  (Done /\ result.Success /\ h.written # {}) =>
     (~h.unverified /\ h.lastExec.exitCode = 0 /\ h.lastExec.err.isNil)

\* C7 (amended): with Config.BuildVerify set and a non-empty Request.WorkDir,
\* whenever Execute returns Success=true the last write of target files was
\* followed by a build command that completed with exit code 0.
C7_SuccessIsVerifiedWhenEnabled ==
  (Done /\ result.Success /\ cfg.BuildVerify /\ req.WorkDir # "") =>
     /\ ~h.unverified
     /\ h.buildCalls >= 1
     /\ h.lastExec.exitCode = 0 /\ h.lastExec.err.isNil

C7_Witness ==
  /\ Done /\ result.Success /\ cfg.BuildVerify /\ req.WorkDir # ""
  /\ h.written # {} /\ attempt >= 2

\* C8: Execute never returns Success=true for an attempt during which the
\* context was cancelled while the attempt was waiting for the LLM call or
\* for the build command.
C8_CancelledAttemptFails ==
  (Done /\ result.Success) => h.cancelAt \notin {"llm", "build"}

\* what the claim says about one writeFiles call on files and blocks ---------
\* the file block i goes to: the i-th requested file, else the name the block
\* declares, else none
ClaimedTarget(files, blocks, i) ==
  IF i <= Len(files) THEN files[i]
  ELSE IF blocks[i].Filename # "" THEN blocks[i].Filename
  ELSE NoTarget

\* content of path p once blocks 1..j have been handled
ClaimedContent(files, blocks, j, p) ==
  LET idx == {i \in 1..j : ClaimedTarget(files, blocks, i) = p}
  IN IF idx = {} THEN fs[p]
     ELSE blocks[CHOOSE i \in idx : \A m \in idx : m <= i].Code

\* a writeFiles call: all blocks are handled in order, or the call stops at
\* the first WriteFile that fails
PositionalWrite ==
  pc = "writing" =>
    LET files == req.Files
        blocks == codeBlocks
        n == Len(blocks)
    IN /\ pc' = "verifying" =>
            /\ \A p \in FsPaths : fs'[p] = ClaimedContent(files, blocks, n, p)
            /\ result'.FilesWritten =
                 SelectSeq([i \in 1..n |-> ClaimedTarget(files, blocks, i)],
                           LAMBDA t : t # NoTarget)
       /\ pc' = "loop" =>
            \E j \in 0..(n - 1) :
              /\ ClaimedTarget(files, blocks, j + 1) # NoTarget
              /\ \A p \in FsPaths : fs'[p] = ClaimedContent(files, blocks, j, p)

\* the response had two fenced blocks, the request names two files, and the
\* writing step went through
TwoForTwo ==
  /\ pc = "writing" /\ pc' = "verifying"
  /\ Len(response) = 2 /\ Len(req.Files) = 2 /\ req.Files[1] # req.Files[2]

\* C9 (as stated): block i is written to file i, a block beyond the requested
\* files is written only under the name it declares; and a response with two
\* fenced code blocks for two files writes block 1 to file 1 and block 2 to
\* file 2.
C9_TwoFencesTwoFiles ==
  [][PositionalWrite /\
     (TwoForTwo => /\ fs'[req.Files[1]] = response[1].Body
                   /\ fs'[req.Files[2]] = response[2].Body)]_vars

\* C9 (amended): the same, where the blocks counted are the extracted ones,
\* that is the fenced blocks that are not empty after trimming: a response
\* with two non-empty fenced code blocks for two files writes block 1 to file
\* 1 and block 2 to file 2.
C9_ExtractedBlocksPositional ==
  [][PositionalWrite /\
     ((TwoForTwo /\ response[1].Body # "" /\ response[2].Body # "") =>
         /\ fs'[req.Files[1]] = response[1].Body
         /\ fs'[req.Files[2]] = response[2].Body)]_vars

C9_Witness ==
  /\ pc = "verifying" /\ Len(response) = 2 /\ Len(codeBlocks) = 2
  /\ Len(req.Files) = 2 /\ req.Files[1] # req.Files[2]
  /\ fs[req.Files[1]] = "c1" /\ fs[req.Files[2]] = "c2"
  /\ result.FilesWritten = req.Files

\* C10: when Execute returns, FilesWritten holds exactly the paths on which a
\* WriteFile call succeeded during the run.
C10_FilesWrittenExact ==
  Done => Range(result.FilesWritten) = h.written

\* an attempt ends in a failure of one of its steps
AttemptFails ==
  /\ pc \in {"reading", "prompting", "llm_wait", "parsing", "writing", "build_wait"}
  /\ pc' = "loop"

\* the loop has budget for another attempt
RetryFollows == attempt < cfg.MaxRetries

\* the text of the verification error of the build that just returned
VerifyErrText ==
  IF ~h'.lastExec.err.isNil THEN h'.lastExec.err.msg ELSE <<h'.lastExec.stderr>>

\* the instruction handed to the prompt service is the request's
InstructionUsed == pc = "prompting" => pa'.inst = req.Instruction

\* C19 (as stated): after any failed attempt that is followed by a retry
\* (read, prompt, retryable LLM, parse, write or verification failure) the
\* instruction of the next attempt is the previous instruction with the
\* failure's message appended, and so is strictly longer.
C19_AnyFailureAppended ==
  [][/\ InstructionUsed
     /\ (AttemptFails /\ RetryFollows) =>
          /\ Len(req'.Instruction) > Len(req.Instruction)
          /\ SubSeq(req'.Instruction, 1, Len(req.Instruction)) = req.Instruction
          /\ \/ Contains(req'.Instruction, result'.Error.msg)
             \/ Contains(req'.Instruction, Tail(result'.Error.msg))]_vars

\* C19 (amended): after an attempt that fails build verification and is
\* followed by a retry, the instruction of the next attempt is the previous
\* instruction followed by "Previous attempt failed:", the text of the
\* verification error and "Please fix the code.", and so is strictly longer;
\* after a failure of any other step the instruction of the next attempt is
\* the previous instruction, unchanged.
C19_VerifyFailureAppended ==
  [][/\ InstructionUsed
     /\ (AttemptFails /\ RetryFollows) =>
          IF pc = "build_wait"
            THEN /\ req'.Instruction =
                      req.Instruction \o <<"Previous attempt failed:">>
                        \o VerifyErrText \o <<"Please fix the code.">>
                 /\ Len(req'.Instruction) > Len(req.Instruction)
            ELSE req'.Instruction = req.Instruction]_vars

\* the second attempt, after a first one that failed verification, has
\* handed the longer instruction to the prompt service
C19_Witness ==
  /\ attempt = 2 /\ pc = "calling" /\ h.firstKind = "build"
  /\ pa.inst = req0.Instruction \o <<"Previous attempt failed:", "undefined: x",
                                      "Please fix the code.">>

\* the error text contains, in whatever case, one of the markers
MarkerIn(text) ==
  \E i \in 1..Len(text) :
    ToLower(text[i]) \in {"timeout", "connection", "rate limit", "502", "503"}

\* C20: after a failed LLM call a further attempt is started if and only if
\* the error text contains, case-insensitively, one of the markers timeout,
\* connection, rate limit, 502, 503 and the budget is not used up; on an
\* error without marker Execute returns at once, Attempts being the index
\* of the failing attempt, and makes no further read, LLM, write or build
\* call.
C20_RetryIffMarker ==
  [][/\ (pc = "llm_wait" /\ pc' \notin {"llm_wait", "parsing"}) =>
          IF MarkerIn(result'.Error.msg)
            THEN pc' = "loop"
            ELSE /\ pc' = "done" /\ result'.Attempts = attempt
                 /\ ~result'.Success /\ attempt' = attempt
     /\ (pc = "loop" /\ h.lastKind = "llm") =>
          ((attempt' = attempt + 1 /\ pc' = "reading") <=> attempt < cfg.MaxRetries)
     /\ pc = "done" =>
          /\ pc' = "done" /\ fs' = fs
          /\ h'.llmCalls = h.llmCalls /\ h'.writeCalls = h.writeCalls
          /\ h'.buildCalls = h.buildCalls]_vars

\* Execute has returned after a first LLM call that failed with an error
\* without marker, with budget left
C20_Witness ==
  /\ Done /\ attempt = 1 /\ cfg.MaxRetries >= 2 /\ h.lastKind = "llm"
  /\ result.Error = Wrap("LLM call:", Err(ErrLLMAuth))
  /\ result.Attempts = 1 /\ h.llmCalls = 1 /\ h.writeCalls = 0

\* C21: a failure in reading the files, building the prompt, extracting
\* code blocks or writing a file never ends the loop: it uses up one attempt,
\* the remaining steps of the attempt are skipped (no LLM call after a read
\* or prompt failure, no write after a parse failure, no build after a write
\* failure), and the next attempt starts whenever budget remains.
C21_StepFailureContinues ==
  [][/\ (pc \in {"reading", "prompting", "parsing", "writing"}
           /\ pc' \notin {"prompting", "calling", "writing", "verifying"}) =>
          /\ pc' = "loop" /\ attempt' = attempt
          /\ ~result'.Success /\ ~result'.Error.isNil
          /\ h'.llmCalls = h.llmCalls /\ h'.buildCalls = h.buildCalls
          /\ pc # "writing" => (h'.writeCalls = h.writeCalls /\ fs' = fs)
     /\ (pc = "loop" /\ h.lastKind \in {"read", "prompt", "parse", "write"}) =>
          /\ h' = [h EXCEPT !.cancelAt = h'.cancelAt]
          /\ fs' = fs
          /\ IF attempt < cfg.MaxRetries
               THEN attempt' = attempt + 1 /\ pc' = "reading"
                      /\ result'.Attempts = attempt + 1
               ELSE attempt' = attempt /\ pc' = "done"]_vars

\* the second attempt is under way after a first one that found no code
\* blocks: one LLM call was made then, and no write
C21_Witness ==
  /\ attempt = 2 /\ pc = "prompting" /\ h.firstKind = "parse"
  /\ h.llmCalls = 1 /\ h.writeCalls = 0 /\ h.buildCalls = 0

RECURSIVE FeedbackTexts(_)
\* the error texts an instruction carries, in the order they stand in it
FeedbackTexts(s) ==
  IF Len(s) < 2 THEN <<>>
  ELSE IF Head(s) = "Previous attempt failed:"
    THEN <<s[2]>> \o FeedbackTexts(Tail(Tail(s)))
  ELSE FeedbackTexts(Tail(s))

\* C22: after an attempt fails build verification with a non-zero exit
\* code, the stderr of the build command stands verbatim in the instruction
\* the next attempt uses, after the error texts of all earlier verification
\* failures of the run, which are still there in their order of occurrence.
C22_VerifyErrorsAccumulate ==
  [][/\ InstructionUsed
     /\ IF pc = "build_wait" /\ pc' = "loop"
          THEN /\ FeedbackTexts(req'.Instruction) =
                    FeedbackTexts(req.Instruction) \o VerifyErrText
               /\ (h'.lastExec.err.isNil /\ h'.lastExec.exitCode # 0) =>
                    Contains(req'.Instruction, <<h'.lastExec.stderr>>)
          ELSE FeedbackTexts(req'.Instruction) = FeedbackTexts(req.Instruction)]_vars

\* the second attempt, sent with the stderr of the first attempt's build in
\* its prompt, has failed verification as well
C22_Witness ==
  /\ attempt = 2 /\ pc = "loop" /\ h.firstKind = "build" /\ h.lastKind = "build"
  /\ h.firstErr = Err(<<"exec: sh: not found">>)
  /\ h.lastExec.exitCode = 1
  /\ FeedbackTexts(req.Instruction) = <<"exec: sh: not found", "undefined: x">>


\* C27: Execute changes nothing in the Request of the caller except its
\* Instruction, and the Instruction only grows by appending: after every
\* step Files, Mode and WorkDir are those of the call, the instruction
\* before the step is a prefix of the instruction after it, and so is the
\* original instruction.
C27_OnlyInstructionGrows ==
  [][/\ req'.Files = req0.Files /\ req'.Mode = req0.Mode /\ req'.WorkDir = req0.WorkDir
     /\ req0' = req0
     /\ Len(req'.Instruction) >= Len(req.Instruction)
     /\ SubSeq(req'.Instruction, 1, Len(req.Instruction)) = req.Instruction
     /\ SubSeq(req'.Instruction, 1, Len(req0.Instruction)) = req0.Instruction]_vars

\* Execute has returned after two failed verifications, the instruction
\* having grown twice
C27_Witness ==
  /\ pc = "done" /\ h.buildCalls = 2
  /\ Len(req.Instruction) >= Len(req0.Instruction) + 6
  /\ req.Files = req0.Files

\* the backups kept of file p
BackupsOf(bks, p) == {b \in bks : b.file = p}

\* C29: with backups enabled, a writing step keeps every backup made
\* before it, with its content, and after it a backup of every file whose
\* content it replaced holds the replaced content.
C29_BackupsNeverOverwritten ==
  [][(pc = "writing" /\ ~cfg.NoBackup) =>
       /\ backups \subseteq backups'
       /\ \A p \in DOMAIN fs :
            (fs[p] # Absent /\ fs'[p] # fs[p]) =>
              \E b \in BackupsOf(backups', p) : b.content = fs[p]]_vars

\* C30: the prompt built for an attempt shows exactly the files named in
\* the current request, whatever calls were made on the Engine before: a
\* path has a file entry in the prompt if and only if the request names it.
C30_PromptHasRequestFilesOnly ==
  pc = "calling" =>
    \A p \in FsPaths :
      Contains(prompt, <<"--- FILE:", p>>) <=> p \in Range(req.Files)
\* ------------------------------------------------------------ diagnose
\* the results Run returned (not the error returns)
Results == {i \in 1..Len(rets) : ~rets[i].err}

\* the issues a returned result shows now
IssuesOf(i) == View(heap, rets[i].Issues)

\* the number of issues of a result that have the level
LevelTally(i, level) ==
  Cardinality({j \in 1..Len(IssuesOf(i)) : IssuesOf(i)[j].Level = level})

C12_AllDisabledHealthy ==
  \A i \in Results :
    Enabled(dg[rets[i].d].config) = {} =>
      /\ IssuesOf(i) = <<>>
      /\ rets[i].counts = [TotalIssues |-> 0, CriticalCount |-> 0,
                           ErrorCount |-> 0, WarningCount |-> 0]
      /\ rets[i].Summary = Healthy

\* two such Runs on one Diagnoser, in a project where every check would fail
C12_Witness ==
  /\ Len(rets) = 2 /\ Results = {1, 2} /\ rets[1].d = rets[2].d
  /\ Enabled(dg[rets[1].d].config) = {}
  /\ env.dir[dg[rets[1].d].config.ProjectPath] = KNoModule
  /\ rets[2].Summary = Healthy

\* C13: Run changes the working directory of the process to the project
\* path only while it runs: when Run returns, with a result or with an error
\* and whatever failed inside its checks, the working directory is the one
\* in effect when Run was called.
C13_WorkDirRestored ==
  /\ \A i \in 1..Len(rets) : rets[i].cwdAtReturn = rets[i].cwdAtCall
  /\ th[1].pc = "idle" => cwd = Home
  /\ th[1].pc # "idle" => cwd = dg[th[1].d].config.ProjectPath

\* a Run in which checks failed has returned
C13_Witness ==
  /\ Len(rets) >= 1 /\ ~rets[1].err /\ th[1].pc = "idle"
  /\ {"build", "test"} \subseteq rets[1].failed
  /\ rets[1].cwdAtCall = Home /\ cwd = Home

\* what a Run with config c reports when nothing else runs in the process:
\* the issues of its enabled checks, all made in its project directory
AloneIssues(c) ==
  LET k == env.dir[c.ProjectPath]
  IN (IF c.CheckConfig THEN checkConfig(k).issues ELSE <<>>)
     \o (IF c.CheckDeps THEN checkDependencies(k).issues ELSE <<>>)
     \o (IF c.CheckBuild THEN checkBuild(k).issues ELSE <<>>)
     \o (IF c.CheckLint THEN checkLint(k, env.golangci).issues ELSE <<>>)
     \o (IF c.CheckTests THEN checkTests(k).issues ELSE <<>>)
     \o (IF c.CheckRuntime THEN checkRuntime(k).issues ELSE <<>>)

\* the success flags of such a Run
AloneFlags(c) ==
  LET k == env.dir[c.ProjectPath]
  IN [BuildSuccess |-> c.CheckBuild /\ checkBuild(k).ok,
      TestSuccess |-> c.CheckTests /\ checkTests(k).ok,
      RunSuccess |-> c.CheckRuntime /\ checkRuntime(k).ok]

\* C14: two Runs executing at the same time in one process on different
\* project paths are independent: under every interleaving each run makes
\* all its checks in its own project directory and returns the result it
\* returns when run alone, and after both returned the working directory of
\* the process is the one from before either started.
C14_ConcurrentRunsIndependent ==
  (Len(rets) = 2 /\ \A t \in Threads : th[t].pc = "idle") =>
     /\ \A i \in 1..2 :
          /\ ~rets[i].err
          /\ rets[i].inOwnDir
          /\ rets[i].seen = AloneIssues(dg[rets[i].d].config)
          /\ rets[i].flags = AloneFlags(dg[rets[i].d].config)
     /\ cwd = Home

\* C15: Run returns an error only when the project directory cannot be
\* entered; otherwise it returns a full DiagnosticResult whatever the checks
\* did: every enabled check was executed, also after an earlier check failed,
\* and every check that failed is recorded in the result by an issue of that
\* check.
C15_FailuresRecorded ==
  \A i \in 1..Len(rets) :
    /\ rets[i].err <=> dg[rets[i].d].config.ProjectPath \notin Dirs
    /\ ~rets[i].err =>
         /\ rets[i].ran = Enabled(dg[rets[i].d].config)
         /\ \A c \in rets[i].failed :
              \E j \in 1..Len(IssuesOf(i)) : IssuesOf(i)[j].Category = c

\* C16: Diagnose is idempotent: two Runs with the same Config on an
\* unchanged project and toolchain, on one Diagnoser or on two, return the
\* same issue sequence, the same counts, the same success flags and the same
\* summary.
C16_RunIdempotent ==
  \A i, j \in Results :
    dg[rets[i].d].config = dg[rets[j].d].config =>
      /\ rets[i].seen = rets[j].seen
      /\ rets[i].counts = rets[j].counts
      /\ rets[i].flags = rets[j].flags
      /\ rets[i].Summary = rets[j].Summary

\* where an issue is: file, line and column
Location(x) == <<x.File, x.Line, x.Column>>

\* C17: of the issues the extractor makes of one build output, two with the
\* same category, location (file, line, column) and message have equal
\* ids, and two that differ in location (another file, or another line or
\* column of the same file) have different ids.
C17_IdsFollowLocation ==
  po.parsed =>
    \A i, j \in 1..Len(po.issues) :
      LET a == po.issues[i]
          b == po.issues[j]
      IN /\ (a.Category = b.Category /\ Location(a) = Location(b)
                /\ a.Description = b.Description) => a.ID = b.ID
         /\ Location(a) # Location(b) => a.ID # b.ID

\* C18: the issues of a DiagnosticResult are deduplicated: no result holds
\* two issues with the same id.
C18_NoDuplicateIds ==
  \A i \in Results :
    \A j, k \in 1..Len(IssuesOf(i)) :
      IssuesOf(i)[j].ID = IssuesOf(i)[k].ID => j = k

\* the order Run makes its checks in
CheckOrder == <<"config", "dependency", "build", "lint", "test", "runtime">>

\* the place of a check in that order
CheckPos(c) == CHOOSE n \in 1..Len(CheckOrder) : CheckOrder[n] = c

\* C23: in one Run the enabled checks are made in the order config,
\* dependencies, build, lint, tests, runtime, for every subset of enabled
\* checks, and the Issues of the result are in detection order: all issues
\* of an earlier check stand before all issues of a later check.
C23_FixedOrder ==
  \A i \in Results :
    /\ rets[i].order =
         SelectSeq(CheckOrder, LAMBDA c : c \in Enabled(dg[rets[i].d].config))
    /\ \A j, k \in 1..Len(IssuesOf(i)) :
         j < k => CheckPos(IssuesOf(i)[j].Category) <= CheckPos(IssuesOf(i)[k].Category)


\* the project directory of the Diagnoser that returned result i
ProjectOf(i) == env.dir[dg[rets[i].d].config.ProjectPath]

\* C24: the runtime check starts the program only if a main entry point is
\* found in the project: when none of the candidate locations exists and
\* the walk finds no main.go, no process is started and the check reports
\* success.
C24_NoMainNoLaunch ==
  \A i \in Results :
    ("runtime" \in rets[i].ran /\ ProjectOf(i).mainFiles = {}) =>
       /\ "runtime" \notin rets[i].launched
       /\ rets[i].flags.RunSuccess


\* C25: when the started program is ended by the deadline of the runtime
\* check, the check adds no issue and RunSuccess is true; when it exits
\* non-zero before the deadline, RunSuccess is false and the issues added
\* are those of the crash signatures found in its output.
C25_DeadlineInconclusive ==
  [][\A t \in Threads :
       (th[t].pc = "runtime" /\ th'[t].pc = "compile" /\ "runtime" \in th'[t].launched) =>
         LET d == th[t].d
             before == View(heap, dg[d].issues)
             after == View(heap', dg'[d].issues)
             added == SubSeq(after, Len(before) + 1, Len(after))
             ids == {added[j].ID : j \in 1..Len(added)}
             out == env.dir[cwd].runOut
         IN /\ SubSeq(after, 1, Len(before)) = before
            /\ \A j \in 1..Len(added) : added[j].Category = "runtime"
            /\ env.dir[cwd].runEnd = "deadline" =>
                 (added = <<>> /\ th'[t].flags.RunSuccess)
            /\ env.dir[cwd].runEnd = "exit" =>
                 /\ ~th'[t].flags.RunSuccess
                 /\ <<"runtime-panic">> \in ids <=>
                      \E j \in 1..(Len(out) - 1) : out[j] = "panic:"
                 /\ <<"runtime-nil-pointer">> \in ids <=>
                      HasWord(out, "nil pointer dereference")
                 /\ <<"runtime-index-out-of-range">> \in ids <=>
                      HasWord(out, "index out of range")]_vars

\* a Run whose program was stopped by the deadline has returned, its
\* runtime check having succeeded without an issue of category runtime
C25_Witness ==
  \E i \in Results : /\ "runtime" \in rets[i].launched
                     /\ ProjectOf(i).runEnd = "deadline"
                     /\ rets[i].flags.RunSuccess
                     /\ \A j \in 1..Len(IssuesOf(i)) : IssuesOf(i)[j].Category # "runtime"

\* the kind the claimed rule gives a message: the first of the substrings
\* it contains, in the order of the rule
KindOfMessage(msg) ==
  IF HasWord(msg, "undefined") THEN "build-undefined-"
  ELSE IF HasWord(msg, "could not import") THEN "build-import-"
  ELSE IF HasWord(msg, "declared but not used") THEN "build-unused-"
  ELSE IF HasWord(msg, "cannot use") THEN "build-type-mismatch-"
  ELSE "build-error-"

\* C26: of a build output, every line path:line:column: message yields
\* exactly one build issue, at the position of the line, of the kind of
\* the first substring its message contains (undefined, could not import,
\* declared but not used with level warning, cannot use, otherwise
\* generic), with a non-empty id and title, and for an undefined message a
\* title and a suggestion that name a symbol of the message.
C26_EveryLineClassified ==
  po.parsed =>
    LET lines == SelectSeq(po.output, LAMBDA ln : ln.kind = "pos")
        located == SelectSeq(po.issues, LAMBDA x : x.File # <<>>)
    IN /\ Len(located) = Len(lines)
       /\ \A n \in 1..Len(lines) :
            LET ln == lines[n]
                x == located[n]
                kind == KindOfMessage(ln.msg)
            IN /\ x.Category = "build"
               /\ Location(x) = <<ln.file, ln.line, ln.col>>
               /\ x.ID # <<>> /\ x.Title # <<>>
               /\ x.ID[1] = kind
               /\ x.Level = (IF kind = "build-unused-" THEN "warning" ELSE "error")
               /\ kind = "build-undefined-" =>
                    \E m \in 1..Len(ln.msg) :
                      /\ Contains(x.Title, <<ln.msg[m]>>)
                      /\ Contains(x.Suggestion, <<ln.msg[m]>>)


\* C28: a Run never reports a failed check as healthy: in every result, a
\* build, test or runtime check that ran and whose success flag is false
\* has at least one issue of its category in the result, and the summary
\* of such a result is not the healthy message.
C28_FailedCheckNotHealthy ==
  \A i \in Results :
    \A c \in {"build", "test", "runtime"} :
      LET flag == IF c = "build" THEN rets[i].flags.BuildSuccess
                  ELSE IF c = "test" THEN rets[i].flags.TestSuccess
                  ELSE rets[i].flags.RunSuccess
      IN (c \in rets[i].ran /\ ~flag) =>
           /\ \E j \in 1..Len(IssuesOf(i)) : IssuesOf(i)[j].Category = c
           /\ rets[i].Summary # Healthy

====
